---- MODULE Spec2Model ----
(***************************************************************************)
(* Model of the order-history screen EnhancedMyOrders                      *)
(* (src/src/Screen1/Shopping/EnhancedMyOrders.tsx): the component state    *)
(* (orders, loading, refreshing, selectedFilter), the mount effect with    *)
(* its 30-second interval, fetchOrders with its two suspension points      *)
(* (storage reads, network call), onRefresh and the filter selection.      *)
(*                                                                         *)
(* JavaScript values are tagged records: [t |-> "null"], [t |->            *)
(* "undefined"], [t |-> "string", v |-> ...], [t |-> "array", v |-> seq],  *)
(* [t |-> "object", v |-> function from field names to values].  Strings   *)
(* that the code transforms character by character (status codes, filter   *)
(* labels) are sequences of one-character strings.                         *)
(***************************************************************************)
EXTENDS Integers, Sequences, FiniteSets, TLC

(***************************************************************************)
(* Bounds of the model.                                                    *)
(***************************************************************************)
\* number of fetchOrders invocations in one behaviour
MaxFetches == 3
\* length of the order lists the view functions are applied to
MaxViewLen == 3
\* length of the data array of a response
MaxData == 2

(***************************************************************************)
(* JavaScript values.                                                      *)
(***************************************************************************)
JNull == [t |-> "null"]
JUndef == [t |-> "undefined"]
JStr(s) == [t |-> "string", v |-> s]
JArr(s) == [t |-> "array", v |-> s]
JObj(o) == [t |-> "object", v |-> o]

\* truthiness as used by `||` and `!` on the values that occur here
Truthy(x) ==
  CASE x.t = "null" -> FALSE
    [] x.t = "undefined" -> FALSE
    [] x.t = "string" -> x.v # ""
    [] OTHER -> TRUE

\* a || b
JsOr(a, b) == IF Truthy(a) THEN a ELSE b

\* obj.field on an object value: undefined when the field is missing
Get(o, field) == IF field \in DOMAIN o THEN o[field] ELSE JUndef

SeqsUpTo(S, n) == UNION {[1..k -> S] : k \in 0..n}

(***************************************************************************)
(* Strings as character sequences.                                         *)
(***************************************************************************)
L_All == <<"A", "l", "l">>
L_all == <<"a", "l", "l">>
L_OrderConfirmed == <<"O", "r", "d", "e", "r", " ", "C", "o", "n", "f", "i", "r", "m", "e", "d">>
L_Processing == <<"P", "r", "o", "c", "e", "s", "s", "i", "n", "g">>
L_Shipped == <<"S", "h", "i", "p", "p", "e", "d">>
L_OutForDelivery == <<"O", "u", "t", " ", "f", "o", "r", " ", "D", "e", "l", "i", "v", "e", "r", "y">>
L_Delivered == <<"D", "e", "l", "i", "v", "e", "r", "e", "d">>
L_Cancelled == <<"C", "a", "n", "c", "e", "l", "l", "e", "d">>
S_order_confirmed == <<"o", "r", "d", "e", "r", "_", "c", "o", "n", "f", "i", "r", "m", "e", "d">>
S_processing == <<"p", "r", "o", "c", "e", "s", "s", "i", "n", "g">>
S_shipped == <<"s", "h", "i", "p", "p", "e", "d">>
S_out_for_delivery == <<"o", "u", "t", "_", "f", "o", "r", "_", "d", "e", "l", "i", "v", "e", "r", "y">>
S_delivered == <<"d", "e", "l", "i", "v", "e", "r", "e", "d">>
S_cancelled == <<"c", "a", "n", "c", "e", "l", "l", "e", "d">>
S_returned == <<"r", "e", "t", "u", "r", "n", "e", "d">>
S_refund_initiated == <<"r", "e", "f", "u", "n", "d", "_", "i", "n", "i", "t", "i", "a", "t", "e", "d">>

UpperChars == <<"A", "B", "C", "D", "E", "F", "G", "H", "I", "J", "K", "L", "M", "N", "O", "P", "Q", "R", "S", "T", "U", "V", "W", "X", "Y", "Z">>
LowerChars == <<"a", "b", "c", "d", "e", "f", "g", "h", "i", "j", "k", "l", "m", "n", "o", "p", "q", "r", "s", "t", "u", "v", "w", "x", "y", "z">>
Whitespace == {" ", "\t", "\n"}

\* String.prototype.toLowerCase, one character
LowerChar(c) ==
  IF \E i \in 1..Len(UpperChars) : UpperChars[i] = c
  THEN LowerChars[CHOOSE i \in 1..Len(UpperChars) : UpperChars[i] = c]
  ELSE c

toLowerCase(s) == [i \in 1..Len(s) |-> LowerChar(s[i])]

\* String.prototype.toUpperCase, one character
UpperChar(c) ==
  IF \E i \in 1..Len(LowerChars) : LowerChars[i] = c
  THEN UpperChars[CHOOSE i \in 1..Len(LowerChars) : LowerChars[i] = c]
  ELSE c

toUpperCase(s) == [i \in 1..Len(s) |-> UpperChar(s[i])]

\* s.replace(/_/g, ' ')
replaceUnderscores(s) == [i \in 1..Len(s) |-> IF s[i] = "_" THEN " " ELSE s[i]]

\* variant: /\s/g, every whitespace character becomes its own '_'
replaceWhitespaceRuns_each(s) ==
  [i \in 1..Len(s) |-> IF s[i] \in Whitespace THEN "_" ELSE s[i]]

\* s.replace(/\s+/g, '_'): every maximal run of whitespace becomes one '_'
RECURSIVE replaceWhitespaceRuns(_)
replaceWhitespaceRuns(s) ==
  IF s = <<>> THEN <<>>
  ELSE IF Head(s) \in Whitespace
       THEN IF Len(s) > 1 /\ s[2] \in Whitespace
            THEN replaceWhitespaceRuns(Tail(s))
            ELSE <<"_">> \o replaceWhitespaceRuns(Tail(s))
       ELSE <<Head(s)>> \o replaceWhitespaceRuns(Tail(s))

\* variant: replace(' ', '_'), a string pattern that replaces only the first
\* space, instead of the global regular expression
normalize_firstSpace(label) ==
  LET s == toLowerCase(label)
      spaces == {i \in 1..Len(s) : s[i] = " "}
  IN IF spaces = {} THEN s
     ELSE [i \in 1..Len(s) |->
             IF i = (CHOOSE k \in spaces : \A j \in spaces : k <= j) THEN "_" ELSE s[i]]

\* selectedFilter.toLowerCase().replace(/\s+/g, '_')
normalize(label) == replaceWhitespaceRuns(toLowerCase(label))

orderFilters == <<L_All, L_OrderConfirmed, L_Processing, L_Shipped, L_OutForDelivery, L_Delivered, L_Cancelled>>

\* variant: the default branch does not upper-case
getStatusText_noUpper(status) ==
  CASE status = S_order_confirmed -> L_OrderConfirmed
    [] status = S_processing -> L_Processing
    [] status = S_shipped -> L_Shipped
    [] status = S_out_for_delivery -> L_OutForDelivery
    [] status = S_delivered -> L_Delivered
    [] status = S_cancelled -> L_Cancelled
    [] OTHER -> replaceUnderscores(status)

\* lines 125-135
getStatusText(status) ==
  CASE status = S_order_confirmed -> L_OrderConfirmed
    [] status = S_processing -> L_Processing
    [] status = S_shipped -> L_Shipped
    [] status = S_out_for_delivery -> L_OutForDelivery
    [] status = S_delivered -> L_Delivered
    [] status = S_cancelled -> L_Cancelled
    [] OTHER -> toUpperCase(replaceUnderscores(status))

\* the six status codes getStatusText knows
KnownStatuses ==
  {S_order_confirmed, S_processing, S_shipped, S_out_for_delivery, S_delivered, S_cancelled}

\* the filter buttons pressed in the state machine: the sentinel and a label
\* that matches some order lists of the model and not others (SpecView
\* presses all seven)
PressedFilters == {L_All, L_Processing}

(***************************************************************************)
(* The Credential Store (AsyncStorage) and the user profile text.          *)
(***************************************************************************)
P_WithUnderscoreId == "{\"_id\":\"c1\"}"
P_WithId == "{\"id\":\"c2\"}"
P_NoId == "{\"name\":\"n\"}"
P_NullJson == "null"
P_Invalid == "{oops"

\* JSON.parse on the profile texts of the model; "threw" is a SyntaxError
JSONparse(text) ==
  CASE text = P_WithUnderscoreId -> [threw |-> FALSE, value |-> JObj([_id |-> JStr("c1")])]
    [] text = P_WithId -> [threw |-> FALSE, value |-> JObj([id |-> JStr("c2")])]
    [] text = P_NoId -> [threw |-> FALSE, value |-> JObj([name |-> JStr("n")])]
    [] text = P_NullJson -> [threw |-> FALSE, value |-> JNull]
    [] OTHER -> [threw |-> TRUE, value |-> JUndef]

\* the Credential Store contents the model starts from: userToken, authToken
\* and userProfile as AsyncStorage.getItem returns them (null when absent)
Store(userToken, authToken, userProfile) ==
  [userToken |-> userToken, authToken |-> authToken, userProfile |-> userProfile]

Storages ==
  { Store(JNull, JNull, JStr(P_WithUnderscoreId)),
    Store(JStr(""), JNull, JStr(P_WithId)),
    Store(JStr("tokA"), JNull, JNull),
    Store(JStr("tokA"), JNull, JStr("")),
    Store(JStr("tokA"), JNull, JStr(P_Invalid)),
    Store(JStr("tokA"), JNull, JStr(P_NullJson)),
    Store(JStr("tokA"), JNull, JStr(P_WithUnderscoreId)),
    Store(JStr(""), JStr("tokB"), JStr(P_WithId)),
    Store(JNull, JStr("tokB"), JStr(P_NoId)) }

API_BASE_URL == <<"h", "t", "t", "p", "s", ":", "/", "/", "d", "u", "m", "m", "y", "-", "b", "a", "c", ".", "o", "n", "r", "e", "n", "d", "e", "r", ".", "c", "o", "m">>
getBackendUrl == API_BASE_URL

(***************************************************************************)
(* Image URLs (backendConfig part of the file, lines 1505-1545).           *)
(***************************************************************************)
StartsWith(s, prefix) ==
  Len(s) >= Len(prefix) /\ SubSeq(s, 1, Len(prefix)) = prefix

Includes(s, part) ==
  \E i \in 1..Len(s) : i + Len(part) - 1 <= Len(s) /\ SubSeq(s, i, i + Len(part) - 1) = part

C_http == <<"h", "t", "t", "p">>
C_httpScheme == <<"h", "t", "t", "p", ":", "/", "/">>
C_httpsScheme == <<"h", "t", "t", "p", "s", ":", "/", "/">>
C_localhost == <<"l", "o", "c", "a", "l", "h", "o", "s", "t">>
C_loopback == <<"1", "2", "7", ".", "0", ".", "0", ".", "1">>
C_uploadsSlash == <<"u", "p", "l", "o", "a", "d", "s", "/">>
C_slashUploadsSlash == <<"/", "u", "p", "l", "o", "a", "d", "s", "/">>

\* the positions where /http:\/\/[^/]+/ matches
HttpOriginStarts(s) ==
  {i \in 1..Len(s) : /\ i + Len(C_httpScheme) <= Len(s)
                      /\ SubSeq(s, i, i + Len(C_httpScheme) - 1) = C_httpScheme
                      /\ s[i + Len(C_httpScheme)] # "/"}

\* the last position of the greedy [^/]+ that starts at position from
RECURSIVE RunEnd(_, _)
RunEnd(s, from) ==
  IF from < Len(s) /\ s[from + 1] # "/" THEN RunEnd(s, from + 1) ELSE from

\* imagePath.replace(/http:\/\/[^/]+/, backendUrl): the first match only
replaceHttpOrigin(s, replacement) ==
  IF HttpOriginStarts(s) = {}
  THEN s
  ELSE LET i == CHOOSE k \in HttpOriginStarts(s) : \A m \in HttpOriginStarts(s) : k <= m
           e == RunEnd(s, i + Len(C_httpScheme))
       IN SubSeq(s, 1, i - 1) \o replacement \o SubSeq(s, e + 1, Len(s))

\* lines 1520-1545
getImageUrl(imagePath) ==
  IF imagePath = <<>> THEN <<>>
  ELSE LET backendUrl == getBackendUrl
       IN IF StartsWith(imagePath, C_http)
          THEN IF Includes(imagePath, C_localhost) \/ Includes(imagePath, C_loopback)
               THEN replaceHttpOrigin(imagePath, backendUrl)
               ELSE imagePath
          ELSE IF StartsWith(imagePath, C_slashUploadsSlash)
          THEN backendUrl \o imagePath
          ELSE IF StartsWith(imagePath, C_uploadsSlash)
          THEN backendUrl \o <<"/">> \o imagePath
          ELSE backendUrl \o C_slashUploadsSlash \o imagePath

(***************************************************************************)
(* Wire records and responses of the backend.                              *)
(***************************************************************************)
Item1 == [name |-> "pen", price |-> 10, quantity |-> 2]

\* a raw order with a products array
W_A1 == [orderId |-> "A1", status |-> S_processing, totalAmount |-> 100,
         products |-> JArr(<<Item1>>)]
\* a raw order that omits products
W_A2 == [orderId |-> "A2", status |-> S_delivered, totalAmount |-> 250]
\* a raw order with products: null and a status outside the known set
W_A3 == [orderId |-> "A3", status |-> S_refund_initiated, totalAmount |-> 75,
         products |-> JNull]

WireRecords == {W_A1, W_A2, W_A3}

\* an order occurs once in a customer's order set (orderId is the list key,
\* line 301)
NoRepeat(q) == \A i, j \in 1..Len(q) : i # j => q[i] # q[j]

\* response.data.data: missing, an array of raw orders, or an array that
\* holds a null where a raw order should be
DataValues ==
  {JUndef, JArr(<<JNull>>), JArr(<<JObj(W_A1), JNull>>)} \cup
  {JArr(s) : s \in {q \in SeqsUpTo({JObj(w) : w \in WireRecords}, MaxData) : NoRepeat(q)}}

\* what axios.get can come back with: a rejection (transport error or
\* non-2xx status) or a resolved response whose body is response.data
Responses ==
  {[kind |-> "reject", data |-> JUndef]} \cup
  {[kind |-> "resolve", data |-> JNull]} \cup
  {[kind |-> "resolve", data |-> JObj([success |-> FALSE])]} \cup
  {[kind |-> "resolve", data |-> JObj([success |-> TRUE, data |-> d])] : d \in DataValues}

(***************************************************************************)
(* State.                                                                  *)
(***************************************************************************)
VARIABLES
  phase,           \* "created" (first render done), "mounted", "unmounted"
  orders,          \* useState<Order[]>([])
  loading,         \* useState(true)
  refreshing,      \* useState(false)
  selectedFilter,  \* useState('all')
  interval,        \* TRUE while the setInterval timer is armed
  storage,         \* AsyncStorage contents
  fetches,         \* fetchOrders invocations suspended at an await
  started,         \* number of fetchOrders invocations so far
  netCalls,        \* number of axios.get calls issued
  lastFetch,       \* what the fetchOrders invocation that completed last did
  ordersWire,      \* response.data.data the current orders were mapped from
  ordersFrom       \* by: the invocation whose setOrders call is the current
                   \* list; newest: the latest-started invocation that has
                   \* called setOrders

vars == <<phase, orders, loading, refreshing, selectedFilter, interval, storage,
          fetches, started, netCalls, lastFetch, ordersWire, ordersFrom>>

NoFetch == [trigger |-> "none", outcome |-> "none", caught |-> FALSE,
            alerts |-> 0, requested |-> FALSE]

Init ==
  /\ phase = "created"
  /\ orders = <<>>
  /\ loading = TRUE
  /\ refreshing = FALSE
  /\ selectedFilter = L_all
  /\ interval = FALSE
  /\ storage \in Storages
  /\ fetches = {}
  /\ started = 0
  /\ netCalls = 0
  /\ lastFetch = NoFetch
  /\ ordersWire = <<>>
  /\ ordersFrom = [by |-> 0, newest |-> 0]

(***************************************************************************)
(* Derived view state.                                                     *)
(***************************************************************************)
\* variant: no sentinel, every label is turned into a status code
visibleOrders_noSentinel(allOrders, label) ==
  LET status == normalize(label)
      Keep(order) == order.status = status
  IN SelectSeq(allOrders, Keep)

\* variant: find instead of filter, only the first match is kept
visibleOrders_firstMatch(allOrders, label) ==
  IF label = L_All
  THEN allOrders
  ELSE LET status == normalize(label)
           Keep(order) == order.status = status
           kept == SelectSeq(allOrders, Keep)
       IN IF kept = <<>> THEN <<>> ELSE <<Head(kept)>>

\* lines 106-111 as a function of the order list and the selected label
visibleOrders(allOrders, label) ==
  IF label = L_All
  THEN allOrders
  ELSE LET status == normalize(label)
           Keep(order) == order.status = status
       IN SelectSeq(allOrders, Keep)

\* lines 106-111
filteredOrders == visibleOrders(orders, selectedFilter)

\* variant: the RefreshControl is also on the screen that shows no order
listRendered_always == phase = "mounted" /\ ~loading

\* the order list with its RefreshControl is rendered (lines 248, 280, 298-307)
listRendered == phase = "mounted" /\ ~loading /\ Len(filteredOrders) > 0

\* the filter buttons are rendered (lines 248, 268-278)
filtersRendered == phase = "mounted" /\ ~loading

(***************************************************************************)
(* fetchOrders.                                                            *)
(***************************************************************************)
\* a new invocation, suspended at the first storage read; refreshingSeen is
\* the value of `refreshing` in the render whose fetchOrders is being called
\* (the function closes over that render's constants)
NewFetch(trigger, seen) ==
  [id |-> started + 1, trigger |-> trigger, refreshingSeen |-> seen, pc |-> "storage"]

\* variant: the catch block reads the current state instead of the closure
refreshingInCatch_live(f) == refreshing

\* the `refreshing` that the catch block of invocation f reads (line 91)
refreshingInCatch(f) == f.refreshingSeen

\* variant: the spread without the `|| []` default
normalizeOrder_noDefault(order) ==
  [field \in DOMAIN order \cup {"products"} |-> Get(order, field)]

\* { ...order, products: order.products || [] }   (lines 80-83)
normalizeOrder(order) ==
  LET products == JsOr(Get(order, "products"), JArr(<<>>))
  IN [field \in DOMAIN order \cup {"products"} |->
        IF field = "products" THEN products ELSE order[field]]

\* response.data.data.map(...) for an array without null elements
mapOrders(data) == [i \in 1..Len(data) |-> normalizeOrder(data[i].v)]

\* variant: the guard tests the profile only, not the token
storageResult_noTokenCheck ==
  LET token == JsOr(storage.userToken, storage.authToken)
      userProfile == storage.userProfile
  IN IF ~Truthy(userProfile)
     THEN [threw |-> TRUE, outcome |-> "unauthenticated"]
     ELSE LET parsed == JSONparse(userProfile.v)
          IN IF parsed.threw \/ parsed.value.t # "object"
             THEN [threw |-> TRUE, outcome |-> "profile_parse"]
             ELSE LET userData == parsed.value.v
                      customer == JsOr(Get(userData, "_id"), Get(userData, "id"))
                  IN [threw |-> FALSE, outcome |-> "requested",
                      customer |-> IF customer.t = "string" THEN customer.v ELSE "undefined",
                      token |-> token]

\* the try block up to the network call (lines 64-76): either it throws or it
\* issues axios.get for a customer with a bearer token
storageResult ==
  LET token == JsOr(storage.userToken, storage.authToken)
      userProfile == storage.userProfile
  IN IF ~Truthy(token) \/ ~Truthy(userProfile)
     THEN [threw |-> TRUE, outcome |-> "unauthenticated"]
     ELSE LET parsed == JSONparse(userProfile.v)
          IN IF parsed.threw \/ parsed.value.t # "object"
             THEN [threw |-> TRUE, outcome |-> "profile_parse"]
             ELSE LET userData == parsed.value.v
                      customer == JsOr(Get(userData, "_id"), Get(userData, "id"))
                  IN [threw |-> FALSE, outcome |-> "requested",
                      customer |-> IF customer.t = "string" THEN customer.v ELSE "undefined",
                      token |-> token]

\* the try block after the network call (lines 74-87)
responseResult(resp) ==
  IF resp.kind = "reject"
  THEN [threw |-> TRUE, outcome |-> "transport", set |-> FALSE]
  ELSE IF resp.data.t # "object"
  THEN [threw |-> TRUE, outcome |-> "malformed", set |-> FALSE]
  ELSE IF ~resp.data.v.success
  THEN [threw |-> FALSE, outcome |-> "not_success", set |-> FALSE]
  ELSE LET data == resp.data.v.data
       IN IF data.t # "array" \/ (\E i \in 1..Len(data.v) : data.v[i].t # "object")
          THEN [threw |-> TRUE, outcome |-> "malformed", set |-> FALSE]
          ELSE [threw |-> FALSE, outcome |-> "ok", set |-> TRUE]

\* variant: the fetched orders are appended to the previous list
ordersAfter_merge(resp, prev) ==
  IF responseResult(resp).set THEN prev \o mapOrders(resp.data.v.data.v) ELSE prev

\* variant: the list is only set while it is empty
ordersAfter_keepFirst(resp, prev) ==
  IF responseResult(resp).set /\ prev = <<>> THEN mapOrders(resp.data.v.data.v) ELSE prev

\* the order list after the try block: setOrders(ordersWithValidProducts) on
\* success, no call otherwise (line 85)
ordersAfter(resp, prev) ==
  IF responseResult(resp).set THEN mapOrders(resp.data.v.data.v) ELSE prev

\* variant: the two setters end the try block instead of sitting in finally
Settle_noFinally(f, result, requested) ==
  LET alert == result.threw /\ ~refreshingInCatch(f)
      n == IF alert THEN 1 ELSE 0
  IN /\ loading' = IF result.threw THEN loading ELSE FALSE
     /\ refreshing' = IF result.threw THEN refreshing ELSE FALSE
     /\ fetches' = fetches \ {f}
     /\ lastFetch' = [trigger |-> f.trigger, outcome |-> result.outcome,
                 caught |-> result.threw, alerts |-> n, requested |-> requested]

\* variant: only the mount fetch clears loading in its finally block
Settle_mountLoading(f, result, requested) ==
  LET alert == result.threw /\ ~refreshingInCatch(f)
      n == IF alert THEN 1 ELSE 0
  IN /\ loading' = IF f.trigger = "mount" THEN FALSE ELSE loading
     /\ refreshing' = FALSE
     /\ fetches' = fetches \ {f}
     /\ lastFetch' = [trigger |-> f.trigger, outcome |-> result.outcome,
                 caught |-> result.threw, alerts |-> n, requested |-> requested]

\* variant: only a manual refresh clears refreshing in its finally block
Settle_ownRefreshing(f, result, requested) ==
  LET alert == result.threw /\ ~refreshingInCatch(f)
      n == IF alert THEN 1 ELSE 0
  IN /\ loading' = FALSE
     /\ refreshing' = IF f.trigger = "manual" THEN FALSE ELSE refreshing
     /\ fetches' = fetches \ {f}
     /\ lastFetch' = [trigger |-> f.trigger, outcome |-> result.outcome,
                 caught |-> result.threw, alerts |-> n, requested |-> requested]

\* catch and finally (lines 88-97), and the invocation is over
Settle(f, result, requested) ==
  LET alert == result.threw /\ ~refreshingInCatch(f)
      n == IF alert THEN 1 ELSE 0
  IN /\ loading' = FALSE
     /\ refreshing' = FALSE
     /\ fetches' = fetches \ {f}
     /\ lastFetch' = [trigger |-> f.trigger, outcome |-> result.outcome,
                 caught |-> result.threw, alerts |-> n, requested |-> requested]

\* the storage reads return (lines 64-76)
fetchOrdersStorage(f) ==
  /\ f \in fetches
  /\ f.pc = "storage"
  /\ LET r == storageResult
     IN IF r.threw
        THEN /\ Settle(f, r, FALSE)
             /\ UNCHANGED <<netCalls, orders, ordersWire, ordersFrom>>
        ELSE /\ netCalls' = netCalls + 1
             /\ fetches' = (fetches \ {f}) \cup {[f EXCEPT !.pc = "network"]}
             /\ UNCHANGED <<orders, ordersWire, ordersFrom, loading, refreshing, lastFetch>>
  /\ UNCHANGED <<phase, selectedFilter, interval, storage, started>>

\* axios.get returns or throws (lines 74-97)
fetchOrdersResponse(f, resp) ==
  /\ f \in fetches
  /\ f.pc = "network"
  /\ LET r == responseResult(resp)
     IN /\ orders' = ordersAfter(resp, orders)
        /\ ordersWire' = IF r.set THEN resp.data.v.data.v ELSE ordersWire
        /\ ordersFrom' = IF r.set
                         THEN [by |-> f.id,
                               newest |-> IF f.id > ordersFrom.newest
                                          THEN f.id ELSE ordersFrom.newest]
                         ELSE ordersFrom
        /\ Settle(f, r, TRUE)
  /\ UNCHANGED <<phase, selectedFilter, interval, storage, started, netCalls>>

(***************************************************************************)
(* The mount effect, the timer, the gestures.                              *)
(***************************************************************************)
\* variant: the cleanup leaves the timer armed
clearInterval_leaky(armed) == armed

\* clearInterval(interval) (line 58)
clearInterval(armed) == FALSE

\* variant: the effect arms the timer but does not call fetchOrders
Mount_noFetch ==
  /\ phase = "created"
  /\ phase' = "mounted"
  /\ interval' = TRUE
  /\ UNCHANGED <<orders, loading, refreshing, selectedFilter, storage, netCalls,
                 lastFetch, ordersWire, ordersFrom, fetches, started>>

\* useEffect(..., []) body (lines 53-57)
Mount ==
  /\ phase = "created"
  /\ phase' = "mounted"
  /\ fetches' = fetches \cup {NewFetch("mount", refreshing)}
  /\ started' = started + 1
  /\ interval' = TRUE
  /\ UNCHANGED <<orders, loading, refreshing, selectedFilter, storage, netCalls,
                 lastFetch, ordersWire, ordersFrom>>

\* variant: a tick is skipped while a fetch is in flight
Tick_guarded ==
  /\ interval
  /\ fetches = {}
  /\ started < MaxFetches
  /\ fetches' = fetches \cup {NewFetch("tick", FALSE)}
  /\ started' = started + 1
  /\ UNCHANGED <<phase, orders, loading, refreshing, selectedFilter, interval,
                 storage, netCalls, lastFetch, ordersWire, ordersFrom>>

\* the interval fires and calls the fetchOrders of the first render (line 57)
Tick ==
  /\ interval
  /\ started < MaxFetches
  /\ fetches' = fetches \cup {NewFetch("tick", FALSE)}
  /\ started' = started + 1
  /\ UNCHANGED <<phase, orders, loading, refreshing, selectedFilter, interval,
                 storage, netCalls, lastFetch, ordersWire, ordersFrom>>

\* pull-to-refresh (lines 101-104, 304-306); the RefreshControl does not fire
\* while it is shown refreshing
onRefresh ==
  /\ listRendered
  /\ ~refreshing
  /\ started < MaxFetches
  /\ refreshing' = TRUE
  /\ fetches' = fetches \cup {NewFetch("manual", refreshing)}
  /\ started' = started + 1
  /\ UNCHANGED <<phase, orders, loading, selectedFilter, interval, storage,
                 netCalls, lastFetch, ordersWire, ordersFrom>>

\* a filter button is pressed (line 235)
setSelectedFilter(label) ==
  /\ filtersRendered
  /\ \E i \in 1..Len(orderFilters) : orderFilters[i] = label
  /\ selectedFilter' = label
  /\ UNCHANGED <<phase, orders, loading, refreshing, interval, storage, fetches,
                 started, netCalls, lastFetch, ordersWire, ordersFrom>>

\* the effect's cleanup (line 58)
Unmount ==
  /\ phase = "mounted"
  /\ phase' = "unmounted"
  /\ interval' = clearInterval(interval)
  /\ UNCHANGED <<orders, loading, refreshing, selectedFilter, storage, fetches,
                 started, netCalls, lastFetch, ordersWire, ordersFrom>>

Next ==
  \/ Mount
  \/ Tick
  \/ onRefresh
  \/ \E label \in PressedFilters : setSelectedFilter(label)
  \/ Unmount
  \/ \E f \in fetches : fetchOrdersStorage(f)
  \/ \E f \in fetches, resp \in Responses : fetchOrdersResponse(f, resp)

Spec == Init /\ [][Next]_vars

(***************************************************************************)
(* The view functions (filteredOrders, getStatusText, getImageUrl) on a    *)
(* screen whose mount fetch delivers any list of ViewWireLists, starting    *)
(* from any label of InitialLabels, followed by the filter buttons.        *)
(***************************************************************************)
L_OutForDeliverySpaced == <<"O", "u", "t", " ", " ", "f", "o", "r", " ", "\t", "D", "e", "l", "i", "v", "e", "r", "y">>
L_PROCESSING == <<"P", "R", "O", "C", "E", "S", "S", "I", "N", "G">>

\* the labels the view starts from: the initial selection of the screen and
\* two labels that are not buttons (a whitespace run, upper case)
InitialLabels == {L_all, L_OutForDeliverySpaced, L_PROCESSING}

\* a second order in the processing state
W_A4 == [orderId |-> "A4", status |-> S_processing, totalAmount |-> 40,
         products |-> JArr(<<Item1>>)]

\* an order whose one product has one image reference
W_Image(path) ==
  [orderId |-> "A5", status |-> S_shipped, totalAmount |-> 10,
   products |-> JArr(<<[name |-> "pen", price |-> 10, quantity |-> 1, images |-> <<path>>]>>)]

C_hostLocal == <<"l", "o", "c", "a", "l", "h", "o", "s", "t", ":", "5", "0", "0", "0">>
C_hostLoopback == <<"1", "2", "7", ".", "0", ".", "0", ".", "1", ":", "5", "0", "0", "0">>
C_hostLocalNoPort == <<"l", "o", "c", "a", "l", "h", "o", "s", "t">>
C_hostOther == <<"c", "d", "n", ".", "e", "x", "a", "m", "p", "l", "e", ".", "c", "o", "m">>
C_pathUpload == <<"/", "u", "p", "l", "o", "a", "d", "s", "/", "a", ".", "p", "n", "g">>
C_pathLocalhostFile == <<"/", "i", "m", "g", "/", "l", "o", "c", "a", "l", "h", "o", "s", "t", ".", "p", "n", "g">>
C_relUploads == <<"u", "p", "l", "o", "a", "d", "s", "/", "a", ".", "p", "n", "g">>
C_relFile == <<"a", ".", "p", "n", "g">>

ImagePaths ==
  {scheme \o host \o path :
     scheme \in {C_httpScheme, C_httpsScheme},
     host \in {C_hostLocal, C_hostLoopback, C_hostLocalNoPort, C_hostOther},
     path \in {C_pathUpload, C_pathLocalhostFile}} \cup
  {C_pathUpload, C_relUploads, C_relFile, <<>>}

ViewWireLists ==
  {q \in SeqsUpTo({JObj(w) : w \in {W_A1, W_A2, W_A3, W_A4}}, MaxViewLen) : NoRepeat(q)} \cup
  {<<JObj(W_Image(path))>> : path \in ImagePaths}

C_placeholder == <<"h", "t", "t", "p", "s", ":", "/", "/", "v", "i", "a", ".", "p", "l", "a", "c", "e", "h", "o", "l", "d", "e", "r", ".", "c", "o", "m", "/", "6", "0">>

\* the uri of a product's image (lines 177-181)
imageUri(product) ==
  IF "images" \in DOMAIN product /\ Len(product.images) > 0
  THEN getImageUrl(product.images[1])
  ELSE C_placeholder

\* the mount fetch is waiting for the response of axios.get
InitView ==
  /\ phase = "mounted"
  /\ orders = <<>>
  /\ ordersWire = <<>>
  /\ loading = TRUE
  /\ refreshing = FALSE
  /\ selectedFilter \in InitialLabels
  /\ interval = TRUE
  /\ storage = Store(JStr("tokA"), JNull, JStr(P_WithUnderscoreId))
  /\ fetches = {[id |-> 1, trigger |-> "mount", refreshingSeen |-> FALSE, pc |-> "network"]}
  /\ started = 1
  /\ netCalls = 1
  /\ lastFetch = NoFetch
  /\ ordersFrom = [by |-> 0, newest |-> 0]

\* a success envelope that carries the list
ViewResponse(list) ==
  [kind |-> "resolve", data |-> JObj([success |-> TRUE, data |-> JArr(list)])]

NextView ==
  \/ \E f \in fetches, list \in ViewWireLists : fetchOrdersResponse(f, ViewResponse(list))
  \/ \E i \in 1..Len(orderFilters) : setSelectedFilter(orderFilters[i])

SpecView == InitView /\ [][NextView]_vars

(***************************************************************************)
(* The screen under the assumption that every storage read and every       *)
(* network call eventually returns or throws.                              *)
(***************************************************************************)
\* a store without a token and a store with token and customer id
LiveStorages ==
  { Store(JNull, JNull, JStr(P_WithUnderscoreId)),
    Store(JStr("tokA"), JNull, JStr(P_WithUnderscoreId)) }

\* a rejection, a non-success envelope and a successful list of one order
LiveResponses ==
  { [kind |-> "reject", data |-> JUndef],
    [kind |-> "resolve", data |-> JObj([success |-> FALSE])],
    [kind |-> "resolve", data |-> JObj([success |-> TRUE, data |-> JArr(<<JObj(W_A1)>>)])] }

InitLive ==
  /\ phase = "created"
  /\ orders = <<>>
  /\ loading = TRUE
  /\ refreshing = FALSE
  /\ selectedFilter = L_all
  /\ interval = FALSE
  /\ storage \in LiveStorages
  /\ fetches = {}
  /\ started = 0
  /\ netCalls = 0
  /\ lastFetch = NoFetch
  /\ ordersWire = <<>>
  /\ ordersFrom = [by |-> 0, newest |-> 0]

\* the awaits of invocation number i (lines 64-65, 74)
StorageReturns(i) == \E f \in fetches : f.id = i /\ fetchOrdersStorage(f)
NetworkReturns(i) ==
  \E f \in fetches, resp \in LiveResponses : f.id = i /\ fetchOrdersResponse(f, resp)

NextLive ==
  \/ Mount
  \/ Tick
  \/ onRefresh
  \/ setSelectedFilter(L_All)
  \/ Unmount
  \/ \E i \in 1..MaxFetches : StorageReturns(i)
  \/ \E i \in 1..MaxFetches : NetworkReturns(i)

\* no await of a started invocation stays pending forever
AwaitsReturn ==
  \A i \in 1..MaxFetches : WF_vars(StorageReturns(i)) /\ WF_vars(NetworkReturns(i))

SpecLive == InitLive /\ [][NextLive]_vars /\ AwaitsReturn

(***************************************************************************)
(* Properties.                                                             *)
(***************************************************************************)
\* invocation f is over in this step
Done(f) == f \in fetches /\ \A g \in fetches' : g.id # f.id

\* some invocation has completed
Completed == lastFetch.trigger # "none"

\* C1: a timer-tick fetch that fails with a network error raises no alert and
\* leaves the order list as it was.
C1_TickFailureSilent ==
  [][\A f \in fetches :
       (Done(f) /\ f.trigger = "tick" /\ lastFetch'.outcome = "transport")
         => (lastFetch'.alerts = 0 /\ orders' = orders)]_vars

\* C2: a manual-refresh fetch that fails with a network error raises the
\* alert exactly once.
C2_ManualFailureAlertsOnce ==
  (lastFetch.trigger = "manual" /\ lastFetch.outcome = "transport")
    => lastFetch.alerts = 1

C2_Witness ==
  /\ lastFetch.trigger = "manual"
  /\ lastFetch.outcome = "transport"
  /\ lastFetch.alerts = 1

\* C3: the mount fetch, failing for any reason (credentials, profile,
\* transport, non-success envelope, malformed payload), raises an alert.
C3_MountFailureAlerts ==
  (lastFetch.trigger = "mount" /\ lastFetch.outcome \notin {"none", "ok"})
    => lastFetch.alerts >= 1

\* C4: after unmount no step writes orders, loading or refreshing.
C4_NoWriteAfterUnmount ==
  [][phase = "unmounted"
       => (orders' = orders /\ loading' = loading /\ refreshing' = refreshing)]_vars

\* neither 'userToken' nor 'authToken' is stored
NoToken == storage.userToken = JNull /\ storage.authToken = JNull

\* C5: with no token in the Credential Store no network request is ever
\* issued and every completed fetchOrders ended in its catch block.
C5_NoTokenNoRequest ==
  NoToken => /\ netCalls = 0
             /\ Completed => (lastFetch.caught /\ ~lastFetch.requested)

C5_Witness ==
  /\ NoToken
  /\ lastFetch.outcome = "unauthenticated"
  /\ lastFetch.caught
  /\ netCalls = 0

\* the stored profile is an object with neither _id nor id
CustomerIdAbsent ==
  /\ Truthy(storage.userProfile)
  /\ LET parsed == JSONparse(storage.userProfile.v)
     IN /\ ~parsed.threw
        /\ parsed.value.t = "object"
        /\ "_id" \notin DOMAIN parsed.value.v
        /\ "id" \notin DOMAIN parsed.value.v

\* C6: with a profile that carries no customer identifier no network
\* request is issued and fetchOrders fails as unauthenticated.
C6_NoCustomerNoRequest ==
  CustomerIdAbsent => /\ netCalls = 0
                      /\ Completed => lastFetch.outcome = "unauthenticated"

\* C7: a success = false envelope ends in the error outcome of a transport
\* error: the catch block runs and the mount fetch raises an alert.
C7_NotSuccessIsFailure ==
  lastFetch.outcome = "not_success"
    => /\ lastFetch.caught
       /\ lastFetch.trigger = "mount" => lastFetch.alerts = 1

\* C8: a completion either swaps in the whole payload of its response, in
\* server order and with nothing kept from the previous list, or leaves the
\* list as it was; every failed fetch leaves it as it was.
C8_ReplaceOrKeep ==
  [][\A f \in fetches : Done(f) =>
       /\ \/ orders' = orders
          \/ /\ lastFetch'.outcome = "ok"
             /\ Len(orders') = Len(ordersWire')
             /\ \A i \in 1..Len(orders') : orders'[i].orderId = ordersWire'[i].v.orderId
       /\ lastFetch'.outcome # "ok" => orders' = orders]_vars

C8_Witness ==
  /\ lastFetch.outcome = "malformed"
  /\ Len(orders) = 2
  /\ orders[1].orderId # orders[2].orderId

\* C9: after unmount the timer is disarmed and no step starts a timer-tick
\* fetch.
C9_NoTickAfterUnmount ==
  [][phase = "unmounted" =>
       /\ ~interval
       /\ \A g \in fetches' : g.trigger = "tick" => \E f \in fetches : f.id = g.id]_vars

C9_Witness ==
  /\ phase = "unmounted"
  /\ ~interval
  /\ started < MaxFetches

\* C10: every stored order has an array as products, the empty one when the
\* raw record had none, and every other field is the raw record's.
C10_ProductsAlwaysArray ==
  /\ Len(orders) = Len(ordersWire)
  /\ \A i \in 1..Len(orders) :
       LET order == orders[i]
           raw == ordersWire[i].v
       IN /\ DOMAIN order = DOMAIN raw \cup {"products"}
          /\ order.products.t = "array"
          /\ "products" \notin DOMAIN raw => order.products.v = <<>>
          /\ ("products" \in DOMAIN raw /\ raw.products.t = "array")
               => order.products = raw.products
          /\ \A field \in DOMAIN raw \ {"products"} : order[field] = raw[field]

C10_Witness ==
  \E i \in 1..Len(orders) :
    /\ "products" \notin DOMAIN ordersWire[i].v
    /\ orders[i].products = JArr(<<>>)

\* C11: with the filter label "All" the visible list is the stored list,
\* same elements in the same order.
C11_AllShowsEverything ==
  selectedFilter = L_All
    => /\ Len(filteredOrders) = Len(orders)
       /\ \A i \in 1..Len(orders) : filteredOrders[i] = orders[i]

C11_Witness ==
  /\ selectedFilter = L_All
  /\ Len(orders) = 2
  /\ Len(filteredOrders) = 2

\* invocation g starts in this step
Starting(g) == g \in fetches' /\ \A f \in fetches : f.id # g.id

\* C14: the mount step leaves the screen loading, starts exactly one fetch
\* and arms the timer; a tick happens only while mounted, starts exactly one
\* more fetch and does not touch loading.
C14_MountAndTicks ==
  [][/\ (phase = "created" /\ phase' = "mounted")
          => /\ loading /\ loading'
             /\ started = 0 /\ started' = 1
             /\ Cardinality(fetches') = 1
             /\ \A g \in fetches' : g.trigger = "mount"
             /\ interval'
     /\ \A g \in fetches' : (Starting(g) /\ g.trigger = "tick")
          => /\ phase = "mounted"
             /\ started' = started + 1
             /\ Cardinality(fetches') = Cardinality(fetches) + 1
             /\ loading' = loading
             /\ interval']_vars

C14_Witness ==
  /\ phase = "mounted"
  /\ ~loading
  /\ \E g \in fetches : g.trigger = "tick"

\* C15: an in-flight fetch blocks neither the timer nor the pull gesture, so
\* a manual-refresh fetch and a timer-tick fetch can be in flight together.
C15_NoOverlapGuard ==
  (fetches # {} /\ started < MaxFetches)
    => /\ interval => ENABLED Tick
       /\ (listRendered /\ ~refreshing) => ENABLED onRefresh

C15_Witness ==
  \E f, g \in fetches : f.trigger = "manual" /\ g.trigger = "tick"

T_REFUND_INITIATED == <<"R", "E", "F", "U", "N", "D", " ", "I", "N", "I", "T", "I", "A", "T", "E", "D">>

\* C16: an order whose status is outside the known set is stored with that
\* status, is visible under "All", and its display text is the status with
\* underscores turned into spaces, upper-cased; no order is dropped.
C16_UnknownStatusKept ==
  /\ Len(orders) = Len(ordersWire)
  /\ \A i \in 1..Len(orders) :
       LET raw == ordersWire[i].v
           text == getStatusText(orders[i].status)
       IN raw.status \notin KnownStatuses
            => /\ orders[i].status = raw.status
               /\ selectedFilter = L_All
                    => \E k \in 1..Len(filteredOrders) : filteredOrders[k] = orders[i]
               /\ Len(text) = Len(raw.status)
               /\ \A j \in 1..Len(text) :
                    text[j] = IF raw.status[j] = "_" THEN " " ELSE UpperChar(raw.status[j])
               /\ raw.status = S_refund_initiated => text = T_REFUND_INITIATED

C16_Witness ==
  /\ selectedFilter = L_All
  /\ \E i \in 1..Len(orders) : orders[i].status = S_refund_initiated

\* no filter button other than "All" is the selection
NoOtherFilterPressed ==
  \A i \in 1..Len(orderFilters) :
    orderFilters[i] # L_All => selectedFilter # orderFilters[i]

\* C18: while no filter button other than "All" has been pressed the selection
\* is the "All" sentinel, and after a successful fetch the visible list is the
\* whole fetched list.
C18_InitialFilterShowsAll ==
  (NoOtherFilterPressed /\ lastFetch.outcome = "ok")
    => /\ selectedFilter = L_All
       /\ filteredOrders = orders

\* C19 as claimed: once no fetch is in flight, the order list is the one set
\* by the latest-started fetch among those that succeeded.
C19_LatestStartedWins ==
  fetches = {} => ordersFrom.by = ordersFrom.newest

\* C19 as amended: responses are applied in completion order; a successful
\* completion makes its own payload the order list whatever was started
\* later, and any other completion leaves the list and its origin alone.
C19_LastCompletedWins ==
  [][\A f \in fetches : Done(f) =>
       IF lastFetch'.outcome = "ok"
       THEN /\ ordersFrom'.by = f.id
            /\ Len(orders') = Len(ordersWire')
            /\ \A i \in 1..Len(orders') : orders'[i].orderId = ordersWire'[i].v.orderId
       ELSE /\ ordersFrom' = ordersFrom
            /\ orders' = orders]_vars

C19_Witness ==
  /\ fetches = {}
  /\ ordersFrom.by < ordersFrom.newest
  /\ lastFetch.outcome = "ok"

\* C20 as claimed: refreshing is true exactly while a manual-refresh fetch is
\* in flight.
C20_RefreshingTracksManual ==
  refreshing <=> \E f \in fetches : f.trigger = "manual"

\* C20 as amended: refreshing becomes true when onRefresh starts, is true only
\* while a manual-refresh fetch is in flight, and is set to false by the
\* completion of every fetch, whatever started it.
C20_RefreshingClearedByAny ==
  [][/\ \A f \in fetches : Done(f) => ~refreshing'
     /\ \A g \in fetches' : (Starting(g) /\ g.trigger = "manual") => refreshing'
     /\ refreshing' => \E g \in fetches' : g.trigger = "manual"]_vars

C20_Witness ==
  /\ ~refreshing
  /\ lastFetch.trigger = "tick"
  /\ \E f \in fetches : f.trigger = "manual"

\* the positions of the orders whose status is the label's status code
MatchingPositions(label) ==
  {i \in 1..Len(orders) : orders[i].status = normalize(label)}

\* the k-th smallest element of a set of positions
KthPosition(positions, k) ==
  CHOOSE i \in positions : Cardinality({j \in positions : j <= i}) = k

\* C12: for a label other than "All" the visible list is the subsequence of
\* the orders whose status is normalize(label): only such orders, all of
\* them, in their original order (empty when none matches).
C12_FilterIsSubsequence ==
  selectedFilter # L_All
    => LET positions == MatchingPositions(selectedFilter)
       IN /\ Len(filteredOrders) = Cardinality(positions)
          /\ \A k \in 1..Len(filteredOrders) :
               /\ filteredOrders[k].status = normalize(selectedFilter)
               /\ filteredOrders[k] = orders[KthPosition(positions, k)]

C12_Witness ==
  /\ selectedFilter = L_Processing
  /\ Len(orders) = 3
  /\ orders[1].status = S_processing
  /\ orders[2].status # S_processing
  /\ orders[3].status = S_processing
  /\ Len(filteredOrders) = 2

\* the positions of a label that survive the collapse of whitespace runs:
\* every character except a whitespace that follows a whitespace
KeptPositions(label) ==
  {i \in 1..Len(label) :
     ~(label[i] \in Whitespace /\ i > 1 /\ label[i - 1] \in Whitespace)}

\* C13: normalize lower-cases the label and turns each run of whitespace
\* into one underscore; "Out for Delivery" becomes "out_for_delivery" and
\* "Order Confirmed" becomes "order_confirmed".
C13_Normalize ==
  /\ normalize(L_OutForDelivery) = S_out_for_delivery
  /\ normalize(L_OrderConfirmed) = S_order_confirmed
  /\ LET kept == KeptPositions(selectedFilter)
         code == normalize(selectedFilter)
     IN /\ Len(code) = Cardinality(kept)
        /\ \A k \in 1..Len(code) :
             LET c == selectedFilter[KthPosition(kept, k)]
             IN code[k] = IF c \in Whitespace THEN "_" ELSE LowerChar(c)

C13_Witness ==
  /\ selectedFilter = L_OutForDeliverySpaced
  /\ normalize(selectedFilter) = S_out_for_delivery

\* an absolute URL, its origin and its path
IsAbsoluteUrl(url) == StartsWith(url, C_httpScheme) \/ StartsWith(url, C_httpsScheme)
SchemeLen(url) == IF StartsWith(url, C_httpsScheme) THEN Len(C_httpsScheme) ELSE Len(C_httpScheme)
OriginEnd(url) ==
  LET slashes == {i \in (SchemeLen(url) + 1)..Len(url) : url[i] = "/"}
  IN IF slashes = {} THEN Len(url)
     ELSE (CHOOSE i \in slashes : \A j \in slashes : i <= j) - 1
HostAndPort(url) == SubSeq(url, SchemeLen(url) + 1, OriginEnd(url))
HostOf(url) ==
  LET hp == HostAndPort(url)
      colons == {i \in 1..Len(hp) : hp[i] = ":"}
  IN IF colons = {} THEN hp
     ELSE SubSeq(hp, 1, (CHOOSE i \in colons : \A j \in colons : i <= j) - 1)
PathOf(url) == SubSeq(url, OriginEnd(url) + 1, Len(url))

\* the products of the stored orders
StoredProducts ==
  UNION {{orders[i].products.v[j] : j \in 1..Len(orders[i].products.v)} :
           i \in 1..Len(orders)}

\* C17: an absolute URL is rewritten to the production origin plus its own
\* path exactly when its host is localhost or 127.0.0.1, under http and
\* under https; any other absolute URL comes back unchanged.
C17_LocalOriginRewritten ==
  \A product \in StoredProducts :
    ("images" \in DOMAIN product /\ IsAbsoluteUrl(product.images[1]))
      => LET url == product.images[1]
         IN imageUri(product) = IF HostOf(url) \in {C_localhost, C_loopback}
                                THEN API_BASE_URL \o PathOf(url)
                                ELSE url

\* the mount effect has run and its fetch is over
MountFetchCompleted == phase # "created" /\ \A f \in fetches : f.trigger # "mount"

\* C21 as claimed: loading is true exactly until the mount fetch completes.
C21_LoadingTracksMountFetch ==
  loading <=> ~MountFetchCompleted

\* C21 as amended: loading is true exactly until the first fetch of any
\* trigger completes, and no step (tick, manual refresh, filter selection or
\* any other) sets it back to true.
C21_LoadingUntilFirstCompletion ==
  /\ [](loading <=> ~Completed)
  /\ [][loading' => loading]_vars

C21_Witness ==
  /\ ~loading
  /\ lastFetch.trigger = "tick"
  /\ \E f \in fetches : f.trigger = "mount"

\* C22: a manual refresh can start only while loading is false and the
\* visible list is non-empty; with an empty visible list (or while loading)
\* only the mount effect and the timer can start a fetch.
C22_RefreshNeedsVisibleList ==
  /\ ENABLED onRefresh => (~loading /\ Len(filteredOrders) > 0)
  /\ loading => \A f \in fetches : f.trigger \in {"mount", "tick"}

C22_Witness ==
  /\ ENABLED onRefresh
  /\ selectedFilter = L_Processing
  /\ Len(filteredOrders) < Len(orders)
  /\ lastFetch.trigger = "manual"

\* invocation number i is in flight
InFlight(i) == \E f \in fetches : f.id = i

\* C23: when every storage read and network call returns or throws, every
\* started fetch completes; each completion (success, failure, missing
\* credentials) sets loading and refreshing to false; after mount the screen
\* eventually leaves the loading state.
C23_EveryFetchCompletes ==
  /\ \A i \in 1..MaxFetches : InFlight(i) ~> ~InFlight(i)
  /\ [][\A f \in fetches : Done(f) => (~loading' /\ ~refreshing')]_vars
  /\ (phase = "mounted") ~> ~loading

C23_Witness ==
  /\ lastFetch.trigger = "mount"
  /\ lastFetch.outcome = "unauthenticated"
  /\ fetches = {}
  /\ ~loading
  /\ ~refreshing

\* the filter buttons other than the sentinel
StatusLabels == {orderFilters[i] : i \in 2..Len(orderFilters)}

\* C24: every filter label other than "All" is the display text of its own
\* status code, and every known status code is the code of its own display
\* text; so the badge of each order shown under a pressed status button
\* reads as the button does.
C24_LabelCodeRoundTrip ==
  /\ \A label \in StatusLabels : getStatusText(normalize(label)) = label
  /\ \A c \in KnownStatuses : normalize(getStatusText(c)) = c
  /\ selectedFilter \in StatusLabels
       => \A k \in 1..Len(filteredOrders) :
            getStatusText(filteredOrders[k].status) = selectedFilter
  /\ \A i \in 1..Len(orders) :
       orders[i].status \in KnownStatuses
         => normalize(getStatusText(orders[i].status)) = orders[i].status

C24_Witness ==
  /\ selectedFilter = L_Processing
  /\ Len(filteredOrders) = 2
  /\ getStatusText(normalize(L_OutForDelivery)) = L_OutForDelivery

====
